---------------------------- MODULE Spec2Model ----------------------------
(***************************************************************************)
(* A model of lp_merger.py: the construction-time validation of Data and   *)
(* Entry records and the merge pipeline of main (load, expand, dedupe,     *)
(* sort, collapse).                                                        *)
(*                                                                         *)
(* Python objects live in `heap`; a reference is an index into it, so that *)
(* in-place mutation and aliasing are visible.  Python strings are         *)
(* sequences of character codes, so that lower(), split() and the string   *)
(* order are computed and not assumed.  Floats are modelled by integers.   *)
(***************************************************************************)
EXTENDS Integers, Sequences, FiniteSets, TLC

VARIABLES
    pc,               \* position of the run
    err,              \* the exception that ended the run, or "none"
    raw_data,         \* keyword arguments handed to Data(...)
    data,             \* the Data object after __post_init__
    loop_i,           \* final value of the loop variable i, per rotation component
    files,            \* parsed contents of the input files, in command-line order
    heap,             \* the Entry objects, by reference
    config,           \* main: config
    expanded_config,  \* main: expanded_config
    deduped_config,   \* main: deduped_config
    sorted_config,    \* main: sorted_config (the argument of collapse)
    result,           \* collapse: result
    reexpanded,       \* expand applied to every entry of a collapse result
    recollapsed       \* collapse applied to reexpanded

vars == <<pc, err, raw_data, data, loop_i, files, heap, config, expanded_config,
          deduped_config, sorted_config, result, reexpanded, recollapsed>>

-----------------------------------------------------------------------------
(* Python values *)

\* An Optional[list] / Optional[str] / Optional[float]: None, or a value.
None == [some |-> FALSE, v |-> <<>>]
Some(x) == [some |-> TRUE, v |-> x]

\* bool(x) of an Optional sequence: None and the empty sequence are falsy.
Truthy(o) == o.some /\ Len(o.v) > 0

\* Typed values, for the comparisons Python makes between values of
\* different types: == is False across types, < raises TypeError.
PyInt(n) == [t |-> "int", v |-> n]
PyStr(s) == [t |-> "str", v |-> s]
PyList(l) == [t |-> "list", v |-> l]
PyNone == [t |-> "NoneType", v |-> <<>>]

PyEq(x, y) == IF x.t # y.t THEN FALSE ELSE x.v = y.v

Abs(n) == IF n < 0 THEN -n ELSE n

\* str.lower() on ASCII codes
Lower(s) == [k \in 1..Len(s) |-> IF s[k] \in 65..90 THEN s[k] + 32 ELSE s[k]]

\* s1 < s2 for str: lexicographic by code point
RECURSIVE StrLess(_, _)
StrLess(s1, s2) ==
    IF Len(s2) = 0 THEN FALSE
    ELSE IF Len(s1) = 0 THEN TRUE
    ELSE IF Head(s1) # Head(s2) THEN Head(s1) < Head(s2)
    ELSE StrLess(Tail(s1), Tail(s2))

\* str.split(sep) for a one-character separator
RECURSIVE SplitFrom(_, _, _)
SplitFrom(s, sep, cur) ==
    IF Len(s) = 0 THEN <<cur>>
    ELSE IF Head(s) = sep THEN <<cur>> \o SplitFrom(Tail(s), sep, <<>>)
    ELSE SplitFrom(Tail(s), sep, Append(cur, Head(s)))

Split(s, sep) == SplitFrom(s, sep, <<>>)

Pipe == <<124>>

-----------------------------------------------------------------------------
(* Flag and get_flag *)

FlagIgnoreScale == <<73,103,110,111,114,101,83,99,97,108,101>>
FlagNoExternalEmittance ==
    <<78,111,69,120,116,101,114,110,97,108,69,109,105,116,116,97,110,99,101>>
FlagPortalStrict == <<80,111,114,116,97,108,83,116,114,105,99,116>>
FlagRandomAnimStart == <<82,97,110,100,111,109,65,110,105,109,83,116,97,114,116>>
FlagShadow == <<83,104,97,100,111,119>>
FlagSimple == <<83,105,109,112,108,101>>
FlagSyncAddonNodes == <<83,121,110,99,65,100,100,111,110,78,111,100,101,115>>
FlagUpdateOnCellTransition ==
    <<85,112,100,97,116,101,79,110,67,101,108,108,84,114,97,110,115,105,116,105,111,110>>
FlagUpdateOnWaiting == <<85,112,100,97,116,101,79,110,87,97,105,116,105,110,103>>

\* the dictionary of get_flag: (key, value) pairs
flag_map ==
    { <<<<105,103,110,111,114,101,115,99,97,108,101>>, FlagIgnoreScale>>,
      <<<<110,111,101,120,116,101,114,110,97,108,101,109,105,116,116,97,110,99,101>>,
        FlagNoExternalEmittance>>,
      <<<<112,111,114,116,97,108,115,116,114,105,99,116>>, FlagPortalStrict>>,
      <<<<114,97,110,100,111,109,97,110,105,109,115,116,97,114,116>>,
        FlagRandomAnimStart>>,
      <<<<115,104,97,100,111,119>>, FlagShadow>>,
      <<<<115,105,109,112,108,101>>, FlagSimple>>,
      <<<<115,121,110,99,97,100,100,111,110,110,111,100,101,115>>, FlagSyncAddonNodes>>,
      <<<<117,112,100,97,116,101,111,110,99,101,108,108,116,114,97,110,115,105,116,105,111,110>>,
        FlagUpdateOnCellTransition>>,
      <<<<117,112,100,97,116,101,111,110,119,97,105,116,105,110,103>>,
        FlagUpdateOnWaiting>> }

\* get_flag(string): the Flag, or KeyError
get_flag(string) ==
    LET key == Lower(string)
        hits == {p \in flag_map : p[1] = key}
    IN IF hits = {} THEN [ok |-> FALSE, flag |-> <<>>]
       ELSE [ok |-> TRUE, flag |-> (CHOOSE p \in hits : TRUE)[2]]

-----------------------------------------------------------------------------
(* Data.__post_init__ *)

\* the while loop on the loop variable i (i is a local name: the loop
\* rebinds it and never stores into self.rotation)
RECURSIVE RotationLoop(_)
RotationLoop(i) ==
    IF Abs(i) >= 360
    THEN IF i > 0 THEN RotationLoop(i - 360)
         ELSE IF i < 0 THEN RotationLoop(i + 360)
         ELSE i
    ELSE i

\* Flag.SHADOW in self.flags, for a list of str: a StrEnum member equals
\* the str of its value, and no other
ShadowIn(flags) == \E k \in 1..Len(flags) : flags[k] = FlagShadow

\* kw: [light, rotation, flags, shadowDepthBias], the last three Optional.
\* Returns the exception raised ("none" if none), the object's fields as
\* __post_init__ leaves them, and the final values of the loop variable.
\* flags ends as [t |-> "NoneType" | "str" | "list", v |-> ...].
DataPostInit(kw) ==
    LET locals == IF kw.rotation.some
                  THEN [k \in 1..Len(kw.rotation.v) |-> RotationLoop(kw.rotation.v[k])]
                  ELSE <<>>
        enter == Truthy(kw.flags)
        tokens == IF enter THEN Split(kw.flags.v, Pipe[1]) ELSE <<>>
        unknown == \E k \in 1..Len(tokens) : ~get_flag(tokens[k]).ok
        flags1 == IF enter THEN PyList(tokens)
                  ELSE IF kw.flags.some THEN PyStr(kw.flags.v) ELSE PyNone
        shadow == flags1.t = "list" /\ ShadowIn(flags1.v)
        obj == [light |-> kw.light, rotation |-> kw.rotation, flags |-> flags1,
                shadowDepthBias |-> kw.shadowDepthBias]
        e == IF enter /\ unknown THEN "KeyError"
             ELSE IF enter /\ shadow /\ ~kw.shadowDepthBias.some THEN "AssertionError"
             ELSE IF kw.shadowDepthBias.some /\ ~shadow THEN "AssertionError"
             ELSE "none"
    IN [err |-> e, obj |-> obj, locals |-> locals]

-----------------------------------------------------------------------------
(* Inputs of the Data specification *)

MaxFlagTokens == 2

TokShadowLower == <<115,104,97,100,111,119>>
TokShadowUpper == <<83,72,65,68,79,87>>
TokSimpleLower == <<115,105,109,112,108,101>>
TokBogus == <<66,111,103,117,115>>

FlagTokens == {FlagShadow, TokShadowLower, TokShadowUpper, FlagSimple,
               TokSimpleLower, TokBogus}

RECURSIVE Join(_)
Join(toks) ==
    IF Len(toks) = 1 THEN toks[1]
    ELSE toks[1] \o Pipe \o Join(Tail(toks))

FlagStrings ==
    { Join(toks) : toks \in UNION { [1..n -> FlagTokens] : n \in 1..MaxFlagTokens } }

Angles == {-720, -450, -360, 0, 90, 360, 450}

RawDatas ==
    [ light : {"L"},
      rotation : {None} \cup { Some(r) : r \in [1..3 -> Angles] },
      flags : {None, Some(<<>>)} \cup { Some(s) : s \in FlagStrings },
      shadowDepthBias : {None, Some(1)} ]

NoData == [light |-> "", rotation |-> None, flags |-> PyNone, shadowDepthBias |-> None]

InitData ==
    /\ pc = "data_new"
    /\ err = "none"
    /\ raw_data \in RawDatas
    /\ data = NoData
    /\ loop_i = <<>>
    /\ files = <<>>
    /\ heap = <<>>
    /\ config = <<>>
    /\ expanded_config = <<>>
    /\ deduped_config = <<>>
    /\ sorted_config = <<>>
    /\ result = <<>>
    /\ reexpanded = <<>>
    /\ recollapsed = <<>>

\* Data(**raw_data): the generated __init__ stores the fields, then
\* __post_init__ runs; an exception leaves no object.
ConstructData ==
    /\ pc = "data_new"
    /\ LET r == DataPostInit(raw_data)
       IN /\ err' = r.err
          /\ loop_i' = r.locals
          /\ IF r.err = "none"
             THEN pc' = "data_done" /\ data' = r.obj
             ELSE pc' = "data_failed" /\ data' = NoData
    /\ UNCHANGED <<raw_data, files, heap, config, expanded_config, deduped_config,
                   sorted_config, result, reexpanded, recollapsed>>

NextData == ConstructData

SpecData == InitData /\ [][NextData]_vars

-----------------------------------------------------------------------------
(* Ordering of Python values: tuples of int and str *)

\* first index at which two tuples differ under ==, or 0
FirstDiff(k1, k2) ==
    LET d == {i \in 1..Len(k1) : ~PyEq(k1[i], k2[i])}
    IN IF d = {} THEN 0 ELSE CHOOSE i \in d : \A j \in d : i <= j

\* k1 < k2 raises TypeError: the first differing items have different types
KeyRaises(k1, k2) ==
    LET i == FirstDiff(k1, k2) IN i # 0 /\ k1[i].t # k2[i].t

\* k1 < k2, when it does not raise
KeyLess(k1, k2) ==
    LET i == FirstDiff(k1, k2)
    IN i # 0 /\ (IF k1[i].t = "int" THEN k1[i].v < k2[i].v
                 ELSE StrLess(k1[i].v, k2[i].v))

\* insert x = [key, val] into a sorted sequence, after every element not
\* greater than it (a stable sort)
RECURSIVE InsertByKey(_, _)
InsertByKey(x, s) ==
    IF Len(s) = 0 THEN <<x>>
    ELSE IF KeyLess(x.key, Head(s).key) THEN <<x>> \o s
    ELSE <<Head(s)>> \o InsertByKey(x, Tail(s))

RECURSIVE SortByKey(_)
SortByKey(s) ==
    IF Len(s) = 0 THEN <<>>
    ELSE InsertByKey(s[Len(s)], SortByKey(SubSeq(s, 1, Len(s) - 1)))

\* sorted(...) / list.sort() of a sequence of [key, val]: the values in
\* ascending key order, equal keys in input order.  A comparison sort has to
\* compare two elements that are adjacent in the order it produces, so it
\* raises TypeError exactly when two keys of the input cannot be compared.
SortedRaises(s) == \E i, j \in 1..Len(s) : KeyRaises(s[i].key, s[j].key)

Sorted(s) == LET t == SortByKey(s) IN [k \in 1..Len(t) |-> t[k].val]

SortInts(l) == Sorted([k \in 1..Len(l) |-> [key |-> <<PyInt(l[k])>>, val |-> l[k]]])

SortStrs(l) == Sorted([k \in 1..Len(l) |-> [key |-> <<PyStr(l[k])>>, val |-> l[k]]])

-----------------------------------------------------------------------------
(* Light.__post_init__ and Entry.__post_init__ *)

\* kw: [data, nodes, points]; blackList and whiteList are absent from every
\* input of the model and are left out.
LightPostInit(kw) ==
    LET bad == kw.points.some /\ \E k \in 1..Len(kw.points.v) : Len(kw.points.v[k]) # 3
        pts == IF kw.points.some /\ ~bad
               THEN Some(Sorted([k \in 1..Len(kw.points.v) |->
                        [key |-> <<PyInt(kw.points.v[k][1]), PyInt(kw.points.v[k][2]),
                                   PyInt(kw.points.v[k][3])>>,
                         val |-> kw.points.v[k]]]))
               ELSE kw.points
    IN [err |-> IF bad THEN "AssertionError" ELSE "none",
        obj |-> [data |-> kw.data, nodes |-> kw.nodes, points |-> pts]]

AttachmentAttrs == <<"addonNodes", "models", "visualEffects">>

\* kw: [lights, addonNodes, models, visualEffects], lights already constructed
EntryPostInit(kw) ==
    LET anyKind == Truthy(kw.models) \/ Truthy(kw.addonNodes) \/ Truthy(kw.visualEffects)
        unplaced == \E k \in 1..Len(kw.lights) :
                        ~(Truthy(kw.lights[k].points) \/ Truthy(kw.lights[k].nodes))
        kind == IF Truthy(kw.visualEffects) THEN "visualEffects"
                ELSE IF Truthy(kw.addonNodes) THEN "addonNodes"
                ELSE "models"
    IN [err |-> IF ~anyKind THEN "AssertionError"
                ELSE IF Truthy(kw.models) /\ unplaced THEN "AssertionError"
                ELSE "none",
        obj |-> [lights |-> kw.lights,
                 addonNodes |-> IF Truthy(kw.addonNodes)
                                THEN Some(SortInts(kw.addonNodes.v)) ELSE kw.addonNodes,
                 models |-> IF Truthy(kw.models)
                            THEN Some(SortStrs(kw.models.v)) ELSE kw.models,
                 visualEffects |-> IF Truthy(kw.visualEffects)
                                   THEN Some(SortStrs(kw.visualEffects.v))
                                   ELSE kw.visualEffects,
                 attachment_type |-> kind]]

-----------------------------------------------------------------------------
(* get_entries_from and the loading loop of main *)

\* Light(data=Data(...), nodes=..., points=...) for one raw light
NewLight(rl) ==
    LET d == DataPostInit(rl.data)
        l == LightPostInit([data |-> d.obj, nodes |-> rl.nodes, points |-> rl.points])
    IN IF d.err # "none" THEN [err |-> d.err, obj |-> l.obj] ELSE l

\* Entry(lights=[...], visualEffects=..., addonNodes=... or None, models=...)
NewEntry(item) ==
    LET ls == [k \in 1..Len(item.lights) |-> NewLight(item.lights[k])]
        bad == {k \in 1..Len(ls) : ls[k].err # "none"}
        e == EntryPostInit(
                [lights |-> [k \in 1..Len(ls) |-> ls[k].obj],
                 visualEffects |-> item.visualEffects,
                 addonNodes |-> IF Truthy(item.addonNodes) THEN item.addonNodes ELSE None,
                 models |-> item.models])
    IN IF bad # {}
       THEN [err |-> ls[CHOOSE k \in bad : \A j \in bad : k <= j].err, obj |-> e.obj]
       ELSE e

\* the items of all files, in file order
RECURSIVE Flatten(_)
Flatten(fs) == IF Len(fs) = 0 THEN <<>> ELSE Head(fs) \o Flatten(Tail(fs))

FirstErr(es) ==
    LET bad == {k \in 1..Len(es) : es[k].err # "none"}
    IN IF bad = {} THEN "none" ELSE es[CHOOSE k \in bad : \A j \in bad : k <= j].err

LoadItems(h, es) ==
    [err |-> FirstErr(es),
     heap |-> h \o [k \in 1..Len(es) |-> es[k].obj],
     refs |-> [k \in 1..Len(es) |-> Len(h) + k]]

LoadAll(h, fs) == LoadItems(h, [k \in 1..Len(Flatten(fs)) |-> NewEntry(Flatten(fs)[k])])

-----------------------------------------------------------------------------
(* expand *)

\* expand without the deepcopy: setattr on the entry itself, which is
\* returned once per item
ExpandNoCopy(h, r) ==
    LET e == h[r]
        hits == {k \in 1..Len(AttachmentAttrs) :
                    e[AttachmentAttrs[k]].some /\ Len(e[AttachmentAttrs[k]].v) > 0}
    IN IF hits = {} THEN [heap |-> h, refs |-> <<r>>]
       ELSE LET attr == AttachmentAttrs[CHOOSE k \in hits : \A j \in hits : k <= j]
                a == e[attr].v
            IN [heap |-> [h EXCEPT ![r][attr] = Some(<<a[Len(a)]>>)],
                refs |-> [k \in 1..Len(a) |-> r]]

\* expand returning from inside the item loop: only the first item is kept
ExpandFirstItemOnly(h, r) ==
    LET e == h[r]
        hits == {k \in 1..Len(AttachmentAttrs) :
                    e[AttachmentAttrs[k]].some /\ Len(e[AttachmentAttrs[k]].v) > 0}
    IN IF hits = {} THEN [heap |-> h, refs |-> <<r>>]
       ELSE LET attr == AttachmentAttrs[CHOOSE k \in hits : \A j \in hits : k <= j]
                a == e[attr].v
            IN [heap |-> Append(h, [e EXCEPT ![attr] = Some(<<a[1]>>)]),
                refs |-> <<Len(h) + 1>>]

\* deepcopy(entry) followed by setattr(new_entry, attr, [item]), per item of
\* the first populated attachment list; the copies are new heap objects.
Expand(h, r) ==
    LET e == h[r]
        hits == {k \in 1..Len(AttachmentAttrs) :
                    e[AttachmentAttrs[k]].some /\ Len(e[AttachmentAttrs[k]].v) > 0}
    IN IF hits = {} THEN [heap |-> h, refs |-> <<r>>]
       ELSE LET attr == AttachmentAttrs[CHOOSE k \in hits : \A j \in hits : k <= j]
                a == e[attr].v
            IN [heap |-> h \o [k \in 1..Len(a) |-> [e EXCEPT ![attr] = Some(<<a[k]>>)]],
                refs |-> [k \in 1..Len(a) |-> Len(h) + k]]

\* for entry in config: expanded_config.extend(expand(entry))
RECURSIVE ExpandAll(_, _)
ExpandAll(h, cfg) ==
    IF Len(cfg) = 0 THEN [heap |-> h, refs |-> <<>>]
    ELSE LET x == Expand(h, Head(cfg))
             rest == ExpandAll(x.heap, Tail(cfg))
         IN [heap |-> rest.heap, refs |-> x.refs \o rest.refs]

-----------------------------------------------------------------------------
(* the deduplication loop of main *)

\* an attachment item as a Python value: addonNodes hold int, the others str
ItemVal(attr, x) == IF attr = "addonNodes" THEN PyInt(x) ELSE PyStr(x)

\* getattr(i, attr): a list, or None
AttrVal(e, attr) == IF e[attr].some THEN PyList(e[attr].v) ELSE PyNone

\* x in (generator): some generated value equals x
PyIn(x, vals) == \E k \in 1..Len(vals) : PyEq(x, vals[k])

\* the body of `for attr in (...)` for one attr
DedupeAttr(h, r, deduped, attr) ==
    IF /\ h[r][attr].some
       /\ Len(h[r][attr].v) > 0
       /\ ~PyIn(ItemVal(attr, h[r][attr].v[1]),
                [k \in 1..Len(deduped) |-> AttrVal(h[deduped[k]], attr)])
    THEN Append(deduped, r)
    ELSE deduped

RECURSIVE Dedupe(_, _, _)
Dedupe(h, expanded, deduped) ==
    IF Len(expanded) = 0 THEN deduped
    ELSE LET r == Head(expanded)
             d1 == DedupeAttr(h, r, deduped, AttachmentAttrs[1])
             d2 == DedupeAttr(h, r, d1, AttachmentAttrs[2])
             d3 == DedupeAttr(h, r, d2, AttachmentAttrs[3])
         IN Dedupe(h, Tail(expanded), d3)

-----------------------------------------------------------------------------
(* the sort of main *)

SortKey(e) ==
    << IF Truthy(e.addonNodes) THEN PyInt(e.addonNodes.v[1]) ELSE PyInt(0),
       IF Truthy(e.models) THEN PyStr(Lower(e.models.v[1])) ELSE PyStr(<<>>),
       IF Truthy(e.visualEffects) THEN PyStr(e.visualEffects.v[1]) ELSE PyInt(0) >>

Keyed(h, refs) == [k \in 1..Len(refs) |-> [key |-> SortKey(h[refs[k]]), val |-> refs[k]]]

SortConfig(h, refs) ==
    IF SortedRaises(Keyed(h, refs)) THEN [err |-> "TypeError", refs |-> <<>>]
    ELSE [err |-> "none", refs |-> Sorted(Keyed(h, refs))]

-----------------------------------------------------------------------------
(* collapse *)

\* Entry.__eq__ had the attachment lists been declared without compare=False
EntryEqAllFields(a, b) == a = b

\* Entry.__eq__ as @dataclass generates it: the tuples of the fields with
\* compare=True, which are lights and attachment_type
EntryEq(a, b) == <<a.lights, a.attachment_type>> = <<b.lights, b.attachment_type>>

\* for other_entry in entries[index + 1:]: ... original.extend(new)
RECURSIVE CollapseScan(_, _, _)
CollapseScan(h, r, others) ==
    IF Len(others) = 0 THEN h
    ELSE LET o == Head(others)
             ta == h[r].attachment_type
             tb == h[o].attachment_type
             h1 == IF EntryEq(h[r], h[o]) /\ Truthy(h[r][ta]) /\ Truthy(h[o][tb])
                   THEN [h EXCEPT ![r][ta].v = @ \o h[o][tb].v]
                   ELSE h
         IN CollapseScan(h1, r, Tail(others))

\* membership by identity alone
InResultIdentity(h, r, res) == \E k \in 1..Len(res) : res[k] = r

\* entry in result: list membership is identity or ==
InResult(h, r, res) == \E k \in 1..Len(res) : res[k] = r \/ EntryEq(h[res[k]], h[r])

RECURSIVE CollapseFrom(_, _, _, _)
CollapseFrom(h, entries, index, res) ==
    IF index > Len(entries) THEN [heap |-> h, refs |-> res]
    ELSE LET r == entries[index]
             h1 == CollapseScan(h, r, SubSeq(entries, index + 1, Len(entries)))
             res1 == IF InResult(h1, r, res) THEN res ELSE Append(res, r)
         IN CollapseFrom(h1, entries, index + 1, res1)

Collapse(h, entries) == CollapseFrom(h, entries, 1, <<>>)

-----------------------------------------------------------------------------
(* Inputs of the pipeline *)

MaxEntries == 2

RawDataL == [light |-> "L", rotation |-> None, flags |-> None, shadowDepthBias |-> None]
RawDataLp == [light |-> "Lp", rotation |-> None, flags |-> None, shadowDepthBias |-> None]

\* light L placed on a node; light Lp (L') placed on two points; L unplaced
LightL == [data |-> RawDataL, nodes |-> Some(<<"n">>), points |-> None]
LightLp == [data |-> RawDataLp, nodes |-> None,
            points |-> Some(<< <<1, 0, 0>>, <<0, 0, 0>> >>)]
LightUnplaced == [data |-> RawDataL, nodes |-> None, points |-> None]

RawLights == { <<LightL>>, <<LightLp>>, <<LightUnplaced>> }

PathA == <<65>>
PathLowerA == <<97>>
PathLowerB == <<98>>
NameFx == <<102, 120>>

\* the attachment keys of a raw entry; the last has none of the three keys
RawAttachments ==
    { [addonNodes |-> Some(<<1>>), models |-> None, visualEffects |-> None],
      [addonNodes |-> Some(<<2, 1>>), models |-> None, visualEffects |-> None],
      [addonNodes |-> Some(<<0>>), models |-> None, visualEffects |-> None],
      [addonNodes |-> None, models |-> Some(<<PathA>>), visualEffects |-> None],
      [addonNodes |-> None, models |-> Some(<<PathLowerB, PathLowerA>>),
       visualEffects |-> None],
      [addonNodes |-> None, models |-> None, visualEffects |-> Some(<<NameFx>>)],
      [addonNodes |-> Some(<<1>>), models |-> Some(<<PathLowerA>>),
       visualEffects |-> None],
      [addonNodes |-> None, models |-> None, visualEffects |-> None] }

RawEntries ==
    { [lights |-> l, addonNodes |-> a.addonNodes, models |-> a.models,
       visualEffects |-> a.visualEffects] : l \in RawLights, a \in RawAttachments }

\* the entries es cut into files: a file ends after every position in cuts
\* and after the last entry; i is the first position of the next file
RECURSIVE CutFiles(_, _, _)
CutFiles(es, cuts, i) ==
    IF i > Len(es) THEN <<>>
    ELSE LET j == CHOOSE j \in i..Len(es) :
                     /\ j \in cuts \/ j = Len(es)
                     /\ \A k \in i..(j - 1) : k \notin cuts
         IN <<SubSeq(es, i, j)>> \o CutFiles(es, cuts, j + 1)

-----------------------------------------------------------------------------
(* main *)

Init ==
    /\ pc = "load"
    /\ err = "none"
    /\ raw_data = RawDataL
    /\ data = NoData
    /\ loop_i = <<>>
    /\ \E n \in 0..MaxEntries : \E es \in [1..n -> RawEntries] :
          \E cuts \in SUBSET (1..(n - 1)) : files = CutFiles(es, cuts, 1)
    /\ heap = <<>>
    /\ config = <<>>
    /\ expanded_config = <<>>
    /\ deduped_config = <<>>
    /\ sorted_config = <<>>
    /\ result = <<>>
    /\ reexpanded = <<>>
    /\ recollapsed = <<>>

\* lines 388-390; an exception of a constructor ends the run
LoadStage ==
    /\ pc = "load"
    /\ LET r == LoadAll(heap, files)
       IN IF r.err = "none"
          THEN /\ pc' = "expand"
               /\ heap' = r.heap
               /\ config' = r.refs
               /\ err' = err
          ELSE /\ pc' = "failed"
               /\ err' = r.err
               /\ UNCHANGED <<heap, config>>
    /\ UNCHANGED <<raw_data, data, loop_i, files, expanded_config, deduped_config,
                   sorted_config, result, reexpanded, recollapsed>>

\* lines 392-394
ExpandStage ==
    /\ pc = "expand"
    /\ LET r == ExpandAll(heap, config)
       IN heap' = r.heap /\ expanded_config' = r.refs
    /\ pc' = "dedupe"
    /\ UNCHANGED <<err, raw_data, data, loop_i, files, config, deduped_config,
                   sorted_config, result, reexpanded, recollapsed>>

\* lines 396-401
DedupeStage ==
    /\ pc = "dedupe"
    /\ deduped_config' = Dedupe(heap, expanded_config, <<>>)
    /\ pc' = "sort"
    /\ UNCHANGED <<err, raw_data, data, loop_i, files, heap, config, expanded_config,
                   sorted_config, result, reexpanded, recollapsed>>

\* lines 403-410
SortStage ==
    /\ pc = "sort"
    /\ LET r == SortConfig(heap, deduped_config)
       IN IF r.err = "none"
          THEN pc' = "collapse" /\ sorted_config' = r.refs /\ err' = err
          ELSE pc' = "failed" /\ err' = r.err /\ sorted_config' = sorted_config
    /\ UNCHANGED <<raw_data, data, loop_i, files, heap, config, expanded_config,
                   deduped_config, result, reexpanded, recollapsed>>

\* line 412: collapse(sorted_config)
CollapseStage ==
    /\ pc = "collapse"
    /\ LET r == Collapse(heap, sorted_config)
       IN heap' = r.heap /\ result' = r.refs
    /\ pc' = "done"
    /\ UNCHANGED <<err, raw_data, data, loop_i, files, config, expanded_config,
                   deduped_config, sorted_config, reexpanded, recollapsed>>

Next == LoadStage \/ ExpandStage \/ DedupeStage \/ SortStage \/ CollapseStage

Spec == Init /\ [][Next]_vars

\* the entries a sequence of references denotes
Deref(h, refs) == [k \in 1..Len(refs) |-> h[refs[k]]]

\* main as a function of the file list: the exception, or the entries that
\* are serialized
RunPipeline(fs) ==
    LET l == LoadAll(<<>>, fs)
        x == ExpandAll(l.heap, l.refs)
        d == Dedupe(x.heap, x.refs, <<>>)
        s == SortConfig(x.heap, d)
        c == Collapse(x.heap, s.refs)
    IN IF l.err # "none" THEN [err |-> l.err, out |-> <<>>]
       ELSE IF s.err # "none" THEN [err |-> s.err, out |-> <<>>]
       ELSE [err |-> "none", out |-> Deref(c.heap, c.refs)]

-----------------------------------------------------------------------------
(* collapse on arbitrary sequences of single-item entries, then expand and  *)
(* collapse again                                                           *)

MaxLen == 3

\* every raw entry with one attachment list of one item
SingleItemAttachments ==
    { [addonNodes |-> Some(<<n>>), models |-> None, visualEffects |-> None]
        : n \in {1, 2, 3} }
    \cup { [addonNodes |-> None, models |-> Some(<<m>>), visualEffects |-> None]
        : m \in {PathLowerA, PathLowerB} }
    \cup { [addonNodes |-> None, models |-> None, visualEffects |-> Some(<<NameFx>>)] }

SingleItemEntries ==
    { [lights |-> l, addonNodes |-> a.addonNodes, models |-> a.models,
       visualEffects |-> a.visualEffects]
        : l \in { <<LightL>>, <<LightLp>> }, a \in SingleItemAttachments }

InitCollapse ==
    /\ pc = "collapse"
    /\ err = "none"
    /\ raw_data = RawDataL
    /\ data = NoData
    /\ loop_i = <<>>
    /\ \E n \in 1..MaxLen : \E s \in [1..n -> SingleItemEntries] : files = <<s>>
    /\ heap = LoadAll(<<>>, files).heap
    /\ config = <<>>
    /\ expanded_config = <<>>
    /\ deduped_config = <<>>
    /\ sorted_config = LoadAll(<<>>, files).refs
    /\ result = <<>>
    /\ reexpanded = <<>>
    /\ recollapsed = <<>>

\* expand applied to each entry of the collapse result, concatenated
ReExpand ==
    /\ pc = "done"
    /\ LET r == ExpandAll(heap, result)
       IN heap' = r.heap /\ reexpanded' = r.refs
    /\ pc' = "reexpanded"
    /\ UNCHANGED <<err, raw_data, data, loop_i, files, config, expanded_config,
                   deduped_config, sorted_config, result, recollapsed>>

ReCollapse ==
    /\ pc = "reexpanded"
    /\ LET r == Collapse(heap, reexpanded)
       IN heap' = r.heap /\ recollapsed' = r.refs
    /\ pc' = "recollapsed"
    /\ UNCHANGED <<err, raw_data, data, loop_i, files, config, expanded_config,
                   deduped_config, sorted_config, result, reexpanded>>

NextCollapse == CollapseStage \/ ReExpand \/ ReCollapse

SpecCollapse == InitCollapse /\ [][NextCollapse]_vars

-----------------------------------------------------------------------------
(* Properties *)

IsPrefix(a, b) == Len(a) <= Len(b) /\ SubSeq(b, 1, Len(a)) = a

Range(f) == {f[k] : k \in DOMAIN f}

\* the populated attachment lists of an entry
PopulatedAttrs(e) == {a \in Range(AttachmentAttrs) : Truthy(e[a])}

\* the attachment items an entry carries, each with its kind
ItemSet(e) == UNION { { <<a, e[a].v[k]>> : k \in 1..Len(e[a].v) } : a \in PopulatedAttrs(e) }

\* an entry carrying exactly one attachment item
SingleItem(e) == Cardinality(PopulatedAttrs(e)) = 1 /\ \A a \in PopulatedAttrs(e) : Len(e[a].v) = 1

\* the positions of a sequence of entries whose items no earlier entry carries
FirstCarriers(es) ==
    {k \in 1..Len(es) : \A j \in 1..(k - 1) : ItemSet(es[j]) \cap ItemSet(es[k]) = {}}

\* the subsequence of s at the positions in keep
RECURSIVE Select(_, _, _)
Select(s, keep, k) ==
    IF k > Len(s) THEN <<>>
    ELSE (IF k \in keep THEN <<s[k]>> ELSE <<>>) \o Select(s, keep, k + 1)

\* C1: the deduplication step keeps, for each distinct attachment item, only
\* the first of the expanded single-item entries that carries it and drops
\* every later entry carrying it; no item is carried by two entries of the
\* deduplicated sequence.
C1_DedupeFirstWins ==
    (pc = "sort" /\ \A k \in 1..Len(expanded_config) : SingleItem(heap[expanded_config[k]]))
    =>
        /\ deduped_config =
              Select(expanded_config, FirstCarriers(Deref(heap, expanded_config)), 1)
        /\ \A i, j \in 1..Len(deduped_config) :
              i < j => ItemSet(heap[deduped_config[i]])
                          \cap ItemSet(heap[deduped_config[j]]) = {}

\* the files of the end-to-end scenario, in either order
FileA == << [lights |-> <<LightL>>, addonNodes |-> Some(<<2, 1>>), models |-> None,
             visualEffects |-> None] >>
FileB == << [lights |-> <<LightLp>>, addonNodes |-> Some(<<1>>), models |-> None,
             visualEffects |-> None] >>

\* C2: with file A defining addonNodes 1 and 2 with light L and file B
\* defining addonNode 1 with light L', the pipeline outputs exactly one
\* entry, with addonNodes [1, 2] and light L, in either file order.
C2_EndToEnd ==
    (pc \in {"done", "failed"} /\ files \in { <<FileA, FileB>>, <<FileB, FileA>> })
    =>
        /\ pc = "done"
        /\ Len(result) = 1
        /\ heap[result[1]].addonNodes = Some(<<1, 2>>)
        /\ ~Truthy(heap[result[1]].models)
        /\ ~Truthy(heap[result[1]].visualEffects)
        /\ heap[result[1]].lights = <<NewLight(LightL).obj>>

\* the attachment items the raw entries of a file define
FileItems(f) ==
    UNION { UNION { { <<a, f[k][a].v[i]>> : i \in 1..Len(f[k][a].v) }
                    : a \in Range(AttachmentAttrs) } : k \in 1..Len(f) }

NoItemInTwoFiles(fs) ==
    \A f, g \in 1..Len(fs) : f # g => FileItems(fs[f]) \cap FileItems(fs[g]) = {}

\* C4: when no attachment item is defined by more than one file, the
\* pipeline completes on every permutation of the file order and yields the
\* same entries in the same order with the same attachment lists.
C4_SortDeterminism ==
    (pc \in {"done", "failed"} /\ LoadAll(<<>>, files).err = "none"
        /\ NoItemInTwoFiles(files))
    =>
        /\ pc = "done"
        /\ \A p \in Permutations(1..Len(files)) :
              RunPipeline([k \in 1..Len(files) |-> files[p[k]]])
                  = [err |-> "none", out |-> Deref(heap, result)]

\* what the claim expects of expand(e): one <<attr, item>> per item of the
\* first non-empty list in the order addonNodes, models, visualEffects
ExpectedSplit(e) ==
    LET hits == {k \in 1..Len(AttachmentAttrs) : Truthy(e[AttachmentAttrs[k]])}
        attr == AttachmentAttrs[CHOOSE k \in hits : \A j \in hits : k <= j]
    IN [k \in 1..Len(e[attr].v) |-> <<attr, e[attr].v[k], e.lights>>]

RECURSIVE ExpectedSplits(_)
ExpectedSplits(es) ==
    IF Len(es) = 0 THEN <<>> ELSE ExpectedSplit(Head(es)) \o ExpectedSplits(Tail(es))

\* C9: for every Entry that construction accepts, expand returns one entry
\* per item of the first non-empty list (addonNodes, models, visualEffects),
\* in item order; each has exactly that item in that list, the other two
\* lists empty, and the lights of the source entry.
C9_ExpandSingleItem ==
    pc = "dedupe" =>
        LET want == ExpectedSplits(Deref(heap, config))
            got == Deref(heap, expanded_config)
        IN /\ Len(got) = Len(want)
           /\ \A k \in 1..Len(got) :
                 /\ got[k][want[k][1]] = Some(<<want[k][2]>>)
                 /\ \A a \in Range(AttachmentAttrs) \ {want[k][1]} : ~Truthy(got[k][a])
                 /\ got[k].lights = want[k][3]

\* the attachment list collapse extends: that of the entry's attachment_type
KindList(e) == e[e.attachment_type].v

\* the entries of S (the argument of collapse) after position i that have
\* the lights of entry i
LaterSameLights(i) ==
    {j \in (i + 1)..Len(sorted_config) :
        heap[sorted_config[j]].lights = heap[sorted_config[i]].lights}

\* ... and also its attachment kind
LaterSameLightsAndKind(i) ==
    {j \in LaterSameLights(i) :
        heap[sorted_config[j]].attachment_type = heap[sorted_config[i]].attachment_type}

\* C3 as stated: the == that collapse uses holds exactly when the lights are
\* structurally equal, whatever the attachment kind, so collapse merges into
\* each entry every later entry with the same lights.
C3_MergedIffSameLights ==
    pc = "done" =>
        \A i \in 1..Len(sorted_config) :
            Len(KindList(heap[sorted_config[i]])) = 1 + Cardinality(LaterSameLights(i))

\* C3 (amended): the == that collapse uses holds exactly when the lights are
\* structurally equal and the attachment kinds are the same; the contents of
\* the attachment lists take no part.  Collapse merges into each entry
\* exactly the later entries with the same lights and the same kind, and
\* returns the entries that no earlier entry has the lights and kind of.
C3_MergedIffSameLightsAndKind ==
    pc = "done" =>
        /\ \A i \in 1..Len(sorted_config) :
              Len(KindList(heap[sorted_config[i]]))
                  = 1 + Cardinality(LaterSameLightsAndKind(i))
        /\ result = Select(sorted_config,
                           {i \in 1..Len(sorted_config) :
                               \A j \in 1..(i - 1) : i \notin LaterSameLightsAndKind(j)}, 1)

\* two entries with the same lights and different kinds next to two entries
\* that were merged although their items differ
C3_Witness ==
    /\ pc = "done"
    /\ \E i, j \in 1..Len(sorted_config) :
          j \in LaterSameLights(i) /\ j \notin LaterSameLightsAndKind(i)
    /\ \E i \in 1..Len(sorted_config) : LaterSameLightsAndKind(i) # {}

\* the input of collapse as it was loaded: one raw single-item entry per position
Input == files[1]

RawItem(re) == CHOOSE x \in FileItems(<<re>>) : TRUE

SameKindDistinctItems(in) ==
    /\ \A i, j \in 1..Len(in) : RawItem(in[i])[1] = RawItem(in[j])[1]
    /\ \A i, j \in 1..Len(in) : i # j => RawItem(in[i]) # RawItem(in[j])

\* the places of the output of collapse that hold item x
Places(x) ==
    UNION { { <<k, q>> : q \in { q \in 1..Len(KindList(heap[result[k]])) :
                <<heap[result[k]].attachment_type, KindList(heap[result[k]])[q]>> = x } }
            : k \in 1..Len(result) }

\* the earliest entry of the input with the lights of entry i
Earliest(i) ==
    CHOOSE k \in 1..i :
        /\ heap[sorted_config[k]].lights = heap[sorted_config[i]].lights
        /\ \A j \in 1..(k - 1) :
              heap[sorted_config[j]].lights # heap[sorted_config[i]].lights

\* C8: for single-item entries of one attachment kind with pairwise distinct
\* items, every input item appears in the output of collapse exactly once,
\* and the entry carrying it is the earliest input entry whose lights equal
\* the lights of the entry the item came from.
C8_CollapseNetEffect ==
    (pc = "done" /\ SameKindDistinctItems(Input)) =>
        \A i \in 1..Len(Input) :
            /\ Cardinality(Places(RawItem(Input[i]))) = 1
            /\ \E k \in 1..Len(result) :
                  /\ result[k] = sorted_config[Earliest(i)]
                  /\ \E q \in 1..Len(KindList(heap[result[k]])) : <<k, q>> \in Places(RawItem(Input[i]))

\* three entries of one kind: the third is merged into the first across a
\* second one with other lights
C8_Witness ==
    /\ pc = "done"
    /\ SameKindDistinctItems(Input)
    /\ Len(Input) >= 3
    /\ Earliest(3) = 1
    /\ Earliest(2) = 2

\* C5: with R = collapse(S) for single-item entries S, expanding every entry
\* of R and collapsing again yields as many entries as R, with position by
\* position the same lights and the same set of attachment items.
C5_CollapseExpandIdempotent ==
    pc = "recollapsed" =>
        /\ Len(recollapsed) = Len(result)
        /\ \A k \in 1..Len(result) :
              /\ heap[recollapsed[k]].lights = heap[result[k]].lights
              /\ ItemSet(heap[recollapsed[k]]) = ItemSet(heap[result[k]])

\* R has a merged entry and a second entry
C5_Witness ==
    /\ pc = "recollapsed"
    /\ Len(result) >= 2
    /\ \E k \in 1..Len(result) : Len(KindList(heap[result[k]])) >= 2
    /\ Len(reexpanded) = Len(sorted_config)

\* C10 as stated: no pipeline stage changes an entry it is given.
C10_NoStageMutates ==
    [][ \A r \in 1..Len(heap) : heap'[r] = heap[r] ]_vars

\* C10 (amended): expand, dedupe and sort change no entry they are given,
\* and the entries expand returns are new objects; collapse changes no
\* entry's lights or attachment kind, but it extends in place the
\* attachment list of its input entries (the list of the entry's kind, by
\* appending), and the entries it returns are entries of its input.
C10_OnlyCollapseExtendsInPlace ==
    [][ /\ \A r \in 1..Len(heap) :
              /\ heap'[r].lights = heap[r].lights
              /\ heap'[r].attachment_type = heap[r].attachment_type
              /\ \A a \in Range(AttachmentAttrs) :
                    /\ heap'[r][a].some = heap[r][a].some
                    /\ IsPrefix(heap[r][a].v, heap'[r][a].v)
                    /\ a # heap[r].attachment_type => heap'[r][a] = heap[r][a]
              /\ pc # "collapse" => heap'[r] = heap[r]
        /\ pc = "expand" =>
              /\ \A k \in 1..Len(expanded_config') : expanded_config'[k] > Len(heap)
              /\ \A k, l \in 1..Len(expanded_config') :
                    k # l => expanded_config'[k] # expanded_config'[l]
        /\ pc = "dedupe" => Range(deduped_config') \subseteq Range(expanded_config)
        /\ pc = "sort" => Range(sorted_config') \subseteq Range(deduped_config)
        /\ pc = "collapse" => Range(result') \subseteq Range(sorted_config)
      ]_vars

\* collapse has run and left an entry of its input, one it does not return,
\* with more than one attachment item
C10_Witness ==
    /\ pc = "done"
    /\ \E k \in 1..Len(sorted_config) :
          /\ sorted_config[k] \notin Range(result)
          /\ Len(KindList(heap[sorted_config[k]])) >= 2

\* every token of the flags string is a recognized flag name, in any case
AllTokensRecognized(s) ==
    \A k \in 1..Len(Split(s, Pipe[1])) : get_flag(Split(s, Pipe[1])[k]).ok

\* some token of the flags string names the Shadow flag, in any case
NamesShadow(s) ==
    \E k \in 1..Len(Split(s, Pipe[1])) :
        LET f == get_flag(Split(s, Pipe[1])[k]) IN f.ok /\ f.flag = FlagShadow

\* C6: after a Data record is constructed with a rotation, every stored
\* component has magnitude below 360 and differs from the input component by
\* a multiple of 360; the input [450, -720, 0] is stored as [90, 0, 0].
C6_RotationNormalized ==
    (pc = "data_done" /\ data.rotation.some) =>
        /\ \A k \in 1..Len(data.rotation.v) :
              /\ Abs(data.rotation.v[k]) < 360
              /\ (data.rotation.v[k] - raw_data.rotation.v[k]) % 360 = 0
        /\ (raw_data.rotation.v = <<450, -720, 0>> => data.rotation.v = <<90, 0, 0>>)

\* C7: for a flags string whose tokens are all recognized flag names in any
\* letter case, construction succeeds if and only if shadowDepthBias is
\* present exactly when one of the tokens names the Shadow flag.
C7_ShadowInvariant ==
    (pc \in {"data_done", "data_failed"} /\ raw_data.flags.some
        /\ AllTokensRecognized(raw_data.flags.v)) =>
        ((pc = "data_done") <=>
            (raw_data.shadowDepthBias.some <=> NamesShadow(raw_data.flags.v)))

=============================================================================
